---- MODULE Spec2Model ----
(***************************************************************************)
(* FinSight (src/main.py): the price-alert evaluator (check_alerts, run by *)
(* the background scheduler every 30 s, over the in-memory alerts_db that  *)
(* create_alert appends to) and the trending resolver (get_trending: the   *)
(* Yahoo strategies for region US, the FMP screener fallback, and the      *)
(* per-symbol enrichment through get_current_price).                       *)
(*                                                                         *)
(* Strings that the code transforms (symbol, region) are sequences of      *)
(* one-character strings, so that upper() and strip() are computed.        *)
(***************************************************************************)
EXTENDS Integers, Sequences, FiniteSets, TLC

\* The alert store and one run of check_alerts
VARIABLES alerts_db, pc, idx, job, cycleLog, pushes, fired, atStart

\* One call of get_trending
VARIABLES tpc, region_code, count, symbols, calls, enrichCalls, out, response

alertVars == <<alerts_db, pc, idx, job, cycleLog, pushes, fired, atStart>>

trendVars == <<tpc, region_code, count, symbols, calls, enrichCalls, out, response>>

\* The subscribers of /ws/price/{symbol}
VARIABLES feeds

\* The requests of POST /alerts in flight, and the appends completed so far
VARIABLES handlers, appended

\* The scheduler's worker threads running check_alerts
VARIABLES workers

feedVars == <<feeds>>

\* The body of the last response of GET /alerts
VARIABLES listing

listVars == <<listing>>

createVars == <<handlers, appended>>

schedVars == <<workers>>

vars == <<alertVars, trendVars, feedVars, listVars, createVars, schedVars>>

\* What the alert store's actions leave alone
notAlertVars == <<trendVars, feedVars, listVars, createVars, schedVars>>

\* What get_trending leaves alone
notTrendVars == <<alertVars, feedVars, listVars, createVars, schedVars>>

\* What the price feed leaves alone.
notFeedVars == <<alertVars, trendVars, listVars, createVars, schedVars>>

----------------------------------------------------------------------------
(* Bounds of the model.                                                    *)

MaxAlerts == 2

MaxPrice == 1

----------------------------------------------------------------------------
(* Strings.                                                                *)

UpperChar(c) ==
  CASE c = "a" -> "A"
    [] c = "b" -> "B"
    [] c = "i" -> "I"
    [] c = "n" -> "N"
    [] c = "u" -> "U"
    [] c = "s" -> "S"
    [] OTHER -> c

\* str.upper()
Upper(s) == [i \in 1..Len(s) |-> UpperChar(s[i])]

RECURSIVE LStrip(_)
LStrip(s) == IF s # <<>> /\ Head(s) = " " THEN LStrip(Tail(s)) ELSE s

RECURSIVE RStrip(_)
RStrip(s) ==
  IF s # <<>> /\ s[Len(s)] = " " THEN RStrip(SubSeq(s, 1, Len(s) - 1)) ELSE s

\* str.strip()
Strip(s) == RStrip(LStrip(s))

----------------------------------------------------------------------------
(* Exceptions.  A handler clause catches an exception of its own class or  *)
(* of a subclass; every exception modelled here derives from Exception.    *)

Catches(clause, exc) == clause = "Exception" \/ clause = exc

----------------------------------------------------------------------------
(* The alert store and the requests of POST /alerts.                       *)

ReqSymbols == {<<"a">>}

\* Alert.condition is any str; the evaluator knows "above" and "below".
Conditions == {"above", "below", "ABOVE"}

TargetPrices == 1..MaxPrice

QuotePrices == 0..(MaxPrice + 1)

AlertRequests ==
  [symbol : ReqSymbols, condition : Conditions,
   target_price : TargetPrices, triggered : BOOLEAN]

\* ticker.history(period="1d"): a frame of Close values, possibly empty.
Frames ==
  {<<>>} \cup {<<p>> : p \in QuotePrices} \cup {<<MaxPrice + 1, 0>>}

\* What requests.post to the push endpoint, or a quote fetch, can raise.
TransportErrors == {"ConnectionError", "Timeout"}

\* create_alert, line 318
NewAlert(req) == [req EXCEPT !.symbol = Upper(req.symbol)]

StoredUpsert(db, alert) ==
  IF \E i \in 1..Len(db) : db[i].symbol = alert.symbol /\ db[i].condition = alert.condition
  THEN LET i == CHOOSE j \in 1..Len(db) :
                  db[j].symbol = alert.symbol /\ db[j].condition = alert.condition
       IN [db EXCEPT ![i] = alert]
  ELSE Append(db, alert)

StoredFront(db, alert) == <<alert>> \o db

\* create_alert, line 319
Stored(db, alert) == Append(db, alert)

----------------------------------------------------------------------------
(* check_alerts.                                                           *)

SkippedNever(alert) == FALSE

\* lines 347-348
Skipped(alert) == alert.triggered

TriggeredNonStrict(alert, data) ==
  /\ data # <<>>
  /\ LET last_close == data[Len(data)]
     IN \/ alert.condition = "above" /\ last_close >= alert.target_price
        \/ alert.condition = "below" /\ last_close <= alert.target_price

TriggeredEmptyAsZero(alert, data) ==
  LET last_close == IF data = <<>> THEN 0 ELSE data[Len(data)]
  IN \/ alert.condition = "above" /\ last_close > alert.target_price
     \/ alert.condition = "below" /\ last_close < alert.target_price

\* lines 352-359: an empty frame is skipped, else the last Close is compared
Triggered(alert, data) ==
  /\ data # <<>>
  /\ LET last_close == data[Len(data)]
     IN \/ alert.condition = "above" /\ last_close > alert.target_price
        \/ alert.condition = "below" /\ last_close < alert.target_price

PushHandlerNarrow == "HTTPException"

\* line 376: except Exception
PushHandler == "Exception"

Entry(alert, fetch, data) ==
  [before |-> alert, fetch |-> fetch, data |-> data, sink |-> "none"]

InitAlerts ==
  /\ alerts_db = <<>>
  /\ pc = "idle"
  /\ idx = 1
  /\ job = "none"
  /\ cycleLog = <<>>
  /\ pushes = [i \in 1..(MaxAlerts + 1) |-> 0]
  /\ fired = [i \in 1..(MaxAlerts + 1) |-> 0]
  /\ atStart = 0

\* POST /alerts
CreateAlert(req) ==
  /\ Len(alerts_db) < MaxAlerts
  /\ alerts_db' = Stored(alerts_db, NewAlert(req))
  /\ UNCHANGED <<pc, idx, job, cycleLog, pushes, fired, atStart>>
  /\ UNCHANGED notAlertVars

\* The scheduler's interval trigger; one instance of the job at a time.
StartCycle ==
  /\ pc = "idle"
  /\ pc' = "loop"
  /\ idx' = 1
  /\ job' = "running"
  /\ cycleLog' = <<>>
  /\ atStart' = Len(alerts_db)
  /\ UNCHANGED <<alerts_db, pushes, fired>>
  /\ UNCHANGED notAlertVars

\* for alert in alerts_db: the iterator is exhausted
EndCycle ==
  /\ pc = "loop"
  /\ idx > Len(alerts_db)
  /\ pc' = "idle"
  /\ job' = "returned"
  /\ UNCHANGED <<alerts_db, idx, cycleLog, pushes, fired, atStart>>
  /\ UNCHANGED notAlertVars

\* lines 347-348
Skip ==
  /\ pc = "loop"
  /\ idx <= Len(alerts_db)
  /\ Skipped(alerts_db[idx])
  /\ cycleLog' = Append(cycleLog, Entry(alerts_db[idx], "none", <<>>))
  /\ idx' = idx + 1
  /\ UNCHANGED <<alerts_db, pc, job, pushes, fired, atStart>>
  /\ UNCHANGED notAlertVars

\* line 351 raises: nothing in check_alerts catches it
FetchRaise ==
  /\ pc = "loop"
  /\ idx <= Len(alerts_db)
  /\ ~Skipped(alerts_db[idx])
  /\ cycleLog' = Append(cycleLog, Entry(alerts_db[idx], "raise", <<>>))
  /\ pc' = "idle"
  /\ job' = "raised"
  /\ UNCHANGED <<alerts_db, idx, pushes, fired, atStart>>
  /\ UNCHANGED notAlertVars

\* lines 350-362 with a frame returned
Fetch(data) ==
  /\ pc = "loop"
  /\ idx <= Len(alerts_db)
  /\ ~Skipped(alerts_db[idx])
  /\ cycleLog' = Append(cycleLog, Entry(alerts_db[idx], "data", data))
  /\ IF Triggered(alerts_db[idx], data)
     THEN /\ alerts_db' = [alerts_db EXCEPT ![idx].triggered = TRUE]
          /\ fired' = [fired EXCEPT ![idx] = @ + 1]
          /\ pc' = "push"
          /\ UNCHANGED idx
     ELSE /\ idx' = idx + 1
          /\ UNCHANGED <<alerts_db, fired, pc>>
  /\ UNCHANGED <<job, pushes, atStart>>
  /\ UNCHANGED notAlertVars

\* lines 370-375: the push endpoint answers (whatever its status)
PushOk ==
  /\ pc = "push"
  /\ pushes' = [pushes EXCEPT ![idx] = @ + 1]
  /\ cycleLog' = [cycleLog EXCEPT ![Len(cycleLog)].sink = "ok"]
  /\ pc' = "loop"
  /\ idx' = idx + 1
  /\ UNCHANGED <<alerts_db, job, fired, atStart>>
  /\ UNCHANGED notAlertVars

\* lines 370-377: requests.post raises
PushFail(exc) ==
  /\ pc = "push"
  /\ pushes' = [pushes EXCEPT ![idx] = @ + 1]
  /\ cycleLog' = [cycleLog EXCEPT ![Len(cycleLog)].sink = exc]
  /\ IF Catches(PushHandler, exc)
     THEN /\ pc' = "loop"
          /\ idx' = idx + 1
          /\ UNCHANGED <<alerts_db, job>>
     ELSE /\ pc' = "idle"
          /\ job' = "raised"
          /\ UNCHANGED <<alerts_db, idx>>
  /\ UNCHANGED <<fired, atStart>>
  /\ UNCHANGED notAlertVars


NextAlerts ==
  \/ \E req \in AlertRequests : CreateAlert(req)
  \/ StartCycle
  \/ EndCycle
  \/ Skip
  \/ FetchRaise
  \/ \E data \in Frames : Fetch(data)
  \/ PushOk
  \/ \E exc \in TransportErrors : PushFail(exc)

----------------------------------------------------------------------------
(* get_trending.                                                           *)

MaxSyms == 2

MaxCount == 1

US == <<"U", "S">>

\* region: Query("US", min_length=2, max_length=3)
Regions == {<<"U", "S">>, <<"u", "s">>, <<"I", "N">>, <<"F", "R">>}

Counts == 1..MaxCount

\* Symbols as an upstream provider may spell them.
Tickers == {<<"A">>, <<" ", "b">>}

SymbolLists == UNION {[1..n -> Tickers] : n \in 0..MaxSyms}

\* FMP_EXCHANGE.get(region_code, "NASDAQ"), lines 116-121 and 248
FmpExchangeDefault(region) == "NASDAQ"

FmpExchange(region) ==
  CASE region = <<"U", "S">> -> "NASDAQ"
    [] region = <<"I", "N">> -> "BSE"
    [] region = <<"G", "B">> -> "LSE"
    [] OTHER -> "NASDAQ"

\* What a Yahoo endpoint can answer to fetch_symbols' request.
YahooReplies ==
  {[kind |-> k, quotes |-> <<>>] : k \in {"timeout", "http_error", "no_quotes"}}
    \cup {[kind |-> "quotes", quotes |-> q] : q \in SymbolLists \ {<<>>}}

\* What the FMP screener can answer.
FmpReplies ==
  {[kind |-> k, quotes |-> <<>>] : k \in {"timeout", "http_error", "invalid"}}
    \cup {[kind |-> "list", quotes |-> q] : q \in SymbolLists}

\* What Yahoo answers to get_current_price: an exception, or rows of history.
PriceSources ==
  {[kind |-> "raise", exc |-> e, rows |-> 0] : e \in TransportErrors}
    \cup {[kind |-> "data", exc |-> "", rows |-> n] : n \in 0..2}

NoRecord == [symbol |-> <<>>, name |-> "None", logo_url |-> "None", price |-> "None"]

\* How a call ends: with a value (a symbol list or a record) or an exception.
ReturnedSymbols(list) ==
  [raised |-> FALSE, exc |-> "", symbols |-> list, record |-> NoRecord]

ReturnedRecord(rec) ==
  [raised |-> FALSE, exc |-> "", symbols |-> <<>>, record |-> rec]

Raised(e) == [raised |-> TRUE, exc |-> e, symbols |-> <<>>, record |-> NoRecord]

\* fetch_symbols, lines 207-214
fetch_symbols(reply) ==
  CASE reply.kind = "timeout" -> Raised("Timeout")
    [] reply.kind = "http_error" -> Raised("HTTPError")
    [] reply.kind = "no_quotes" -> Raised("ValueError")
    [] OTHER -> IF reply.quotes = <<>> THEN Raised("ValueError")
                ELSE ReturnedSymbols(reply.quotes)

\* get_current_price, lines 139-194, as get_trending uses it
get_current_price(symbol, source) ==
  IF source.kind = "raise" THEN Raised(source.exc)
  ELSE IF source.rows < 2 THEN Raised("HTTPException")
  ELSE ReturnedRecord([symbol |-> Upper(Strip(symbol)), name |-> "Name",
                       logo_url |-> "Logo", price |-> "Close"])

\* line 278
Partial(sym) == [symbol |-> sym, name |-> "None", logo_url |-> "None", price |-> "None"]

\* lines 229, 236, 243: except Exception
StrategyHandler == "Exception"

\* line 277: except HTTPException
EnrichHandler == "HTTPException"

NeedsFallbackAlways(syms) == TRUE

\* line 247: if not symbols
NeedsFallback(syms) == syms = <<>>

NoTrendingNever(syms) == FALSE

\* line 263: if not symbols
NoTrending(syms) == syms = <<>>

\* The nesting of the try blocks, lines 224-244
NextStrategy(s) ==
  CASE s = "trending" -> "day_gainers"
    [] s = "day_gainers" -> "most_actives"
    [] OTHER -> "fallback"

NoResponse == [kind |-> "none", status |-> 0, detail |-> "", body |-> <<>>]

Ok(list) == [kind |-> "ok", status |-> 200, detail |-> "", body |-> list]

HttpError(status, detail) ==
  [kind |-> "HTTPException", status |-> status, detail |-> detail, body |-> <<>>]

\* An exception no handler of the endpoint catches.
Unhandled(exc) == [kind |-> "unhandled", status |-> 500, detail |-> exc, body |-> <<>>]

Call(strategy, exchange, limit, reply) ==
  [strategy |-> strategy, exchange |-> exchange, count |-> limit, reply |-> reply]

InitTrending ==
  /\ tpc = "idle"
  /\ region_code = <<>>
  /\ count = 0
  /\ symbols = <<>>
  /\ calls = <<>>
  /\ enrichCalls = <<>>
  /\ out = <<>>
  /\ response = NoResponse

\* The exception leaves get_trending
Propagate(exc) ==
  /\ response' = Unhandled(exc)
  /\ tpc' = "done"
  /\ UNCHANGED symbols

\* lines 263-267
Resolved(syms) ==
  /\ symbols' = syms
  /\ IF NoTrending(syms)
     THEN tpc' = "done" /\ response' = HttpError(502, "No trending/gainers")
     ELSE tpc' = "enrich" /\ UNCHANGED response

\* line 247, with the region's strategies done
AfterStrategies(syms) ==
  IF NeedsFallback(syms)
  THEN symbols' = syms /\ tpc' = "fmp" /\ UNCHANGED response
  ELSE Resolved(syms)

\* GET /trending, lines 205-219
Request(region, n) ==
  /\ tpc = "idle"
  /\ region_code' = Upper(region)
  /\ count' = n
  /\ IF Upper(region) = US
     THEN tpc' = "trending" /\ UNCHANGED <<symbols, response>>
     ELSE AfterStrategies(<<>>)
  /\ UNCHANGED <<calls, enrichCalls, out>>
  /\ UNCHANGED notTrendVars

\* One of the three Yahoo strategies, lines 224-244, then line 247
YahooStrategy(reply) ==
  /\ tpc \in {"trending", "day_gainers", "most_actives"}
  /\ calls' = Append(calls, Call(tpc, "", count, reply))
  /\ LET r == fetch_symbols(reply)
     IN IF ~r.raised THEN AfterStrategies(r.symbols)
        ELSE IF ~Catches(StrategyHandler, r.exc) THEN Propagate(r.exc)
        ELSE IF NextStrategy(tpc) = "fallback" THEN AfterStrategies(<<>>)
        ELSE tpc' = NextStrategy(tpc) /\ UNCHANGED <<symbols, response>>
  /\ UNCHANGED <<region_code, count, enrichCalls, out>>
  /\ UNCHANGED notTrendVars

\* The FMP screener, lines 248-264
FmpFallback(reply) ==
  /\ tpc = "fmp"
  /\ calls' = Append(calls, Call("fmp", FmpExchange(region_code), count, reply))
  /\ CASE reply.kind = "timeout" -> Propagate("Timeout")
       [] reply.kind = "http_error" ->
            /\ response' = HttpError(502, "FMP fallback failed")
            /\ tpc' = "done"
            /\ UNCHANGED symbols
       [] reply.kind = "invalid" -> Propagate("ValueError")
       [] OTHER -> Resolved(reply.quotes)
  /\ UNCHANGED <<region_code, count, enrichCalls, out>>
  /\ UNCHANGED notTrendVars

\* One turn of the loop of lines 268-278, and line 280 after the last
Enrich(source) ==
  /\ tpc = "enrich"
  /\ Len(out) < Len(symbols)
  /\ LET sym == symbols[Len(out) + 1]
         r == get_current_price(sym, source)
         rec == IF r.raised THEN Partial(sym) ELSE r.record
     IN /\ enrichCalls' = Append(enrichCalls, [symbol |-> sym, source |-> source])
        /\ IF r.raised /\ ~Catches(EnrichHandler, r.exc)
           THEN Propagate(r.exc) /\ UNCHANGED out
           ELSE /\ out' = Append(out, rec)
                /\ UNCHANGED symbols
                /\ IF Len(out) + 1 = Len(symbols)
                   THEN response' = Ok(Append(out, rec)) /\ tpc' = "done"
                   ELSE UNCHANGED <<response, tpc>>
  /\ UNCHANGED <<region_code, count, calls>>
  /\ UNCHANGED notTrendVars

NextTrending ==
  \/ \E region \in Regions, n \in Counts : Request(region, n)
  \/ \E reply \in YahooReplies : YahooStrategy(reply)
  \/ \E reply \in FmpReplies : FmpFallback(reply)
  \/ \E source \in PriceSources : Enrich(source)

----------------------------------------------------------------------------
(* The evaluator against a market that keeps answering the same way: the   *)
(* provider raises for one symbol and quotes the other above every target. *)

LiveRequests ==
  [symbol : {<<"a">>, <<"n">>}, condition : {"above", "below"},
   target_price : TargetPrices, triggered : BOOLEAN]

\* ticker.history raises for this symbol, cycle after cycle
Unavailable(symbol) == symbol = <<"N">>

\* ticker.history for any other symbol
MarketFrame == <<MaxPrice + 1>>

LiveFetchRaise ==
  /\ pc = "loop"
  /\ idx <= Len(alerts_db)
  /\ Unavailable(alerts_db[idx].symbol)
  /\ FetchRaise

LiveFetch ==
  /\ pc = "loop"
  /\ idx <= Len(alerts_db)
  /\ ~Unavailable(alerts_db[idx].symbol)
  /\ Fetch(MarketFrame)

\* The steps of a running check_alerts
CycleStep ==
  \/ EndCycle
  \/ Skip
  \/ LiveFetchRaise
  \/ LiveFetch
  \/ PushOk
  \/ \E exc \in TransportErrors : PushFail(exc)

NextLive ==
  \/ \E req \in LiveRequests : CreateAlert(req)
  \/ StartCycle
  \/ EndCycle
  \/ Skip
  \/ LiveFetchRaise
  \/ LiveFetch
  \/ PushOk
  \/ \E exc \in TransportErrors : PushFail(exc)

----------------------------------------------------------------------------
(* The scheduler: BackgroundScheduler with its defaults (a pool of worker  *)
(* threads, max_instances = 1 for the job) runs check_alerts on a worker   *)
(* at each interval trigger.  A worker's turn of the loop is the test of   *)
(* the flag, the fetch, and the write of the flag with its push.           *)

MaxWorkers == 2

Workers == 1..MaxWorkers

SchedRequests ==
  [symbol : ReqSymbols, condition : {"above", "below"},
   target_price : TargetPrices, triggered : BOOLEAN]

Running == {w \in Workers : workers.threads[w].pc # "idle"}

InstanceLimitNever(n) == FALSE

\* add_job without max_instances, line 380: one running instance at most
InstanceLimitReached(n) == n >= 1

InitSched ==
  workers = [threads |-> [w \in Workers |-> [pc |-> "idle", idx |-> 1]],
             skipped |-> FALSE]

\* Worker w goes to program point p with loop index i
Goto(w, p, i) ==
  workers' = [workers EXCEPT !.threads[w] = [pc |-> p, idx |-> i]]

\* The interval trigger fires and the job is submitted to worker w
Trigger(w) ==
  /\ workers.threads[w].pc = "idle"
  /\ ~InstanceLimitReached(Cardinality(Running))
  /\ workers' = [workers EXCEPT !.threads[w] = [pc |-> "test", idx |-> 1],
                                !.skipped = FALSE]
  /\ UNCHANGED <<alertVars, trendVars, feedVars, listVars, createVars>>

\* The interval trigger fires while an instance runs: the run is skipped
MissedRun ==
  /\ InstanceLimitReached(Cardinality(Running))
  /\ workers' = [workers EXCEPT !.skipped = TRUE]
  /\ UNCHANGED <<alertVars, trendVars, feedVars, listVars, createVars>>

\* line 346: the iterator is exhausted
WorkerEnd(w) ==
  /\ workers.threads[w].pc = "test"
  /\ workers.threads[w].idx > Len(alerts_db)
  /\ Goto(w, "idle", workers.threads[w].idx)
  /\ UNCHANGED <<alertVars, trendVars, feedVars, listVars, createVars>>

\* lines 346-348: the flag is read
WorkerTest(w) ==
  LET i == workers.threads[w].idx
  IN /\ workers.threads[w].pc = "test"
     /\ i <= Len(alerts_db)
     /\ IF Skipped(alerts_db[i]) THEN Goto(w, "test", i + 1) ELSE Goto(w, "fetch", i)
     /\ UNCHANGED <<alertVars, trendVars, feedVars, listVars, createVars>>

\* line 351 raises
WorkerFetchRaise(w) ==
  /\ workers.threads[w].pc = "fetch"
  /\ Goto(w, "idle", workers.threads[w].idx)
  /\ UNCHANGED <<alertVars, trendVars, feedVars, listVars, createVars>>

\* lines 350-362
WorkerFetch(w, data) ==
  LET i == workers.threads[w].idx
  IN /\ workers.threads[w].pc = "fetch"
     /\ IF Triggered(alerts_db[i], data)
        THEN /\ alerts_db' = [alerts_db EXCEPT ![i].triggered = TRUE]
             /\ Goto(w, "push", i)
        ELSE /\ Goto(w, "test", i + 1)
             /\ UNCHANGED alerts_db
     /\ UNCHANGED <<pc, idx, job, cycleLog, pushes, fired, atStart>>
     /\ UNCHANGED <<trendVars, feedVars, listVars, createVars>>

\* lines 363-377: the push, answered or failed
WorkerPush(w) ==
  LET i == workers.threads[w].idx
  IN /\ workers.threads[w].pc = "push"
     /\ pushes' = [pushes EXCEPT ![i] = @ + 1]
     /\ Goto(w, "test", i + 1)
     /\ UNCHANGED <<alerts_db, pc, idx, job, cycleLog, fired, atStart>>
     /\ UNCHANGED <<trendVars, feedVars, listVars, createVars>>

NextSched ==
  \/ \E req \in SchedRequests : CreateAlert(req)
  \/ \E w \in Workers : Trigger(w)
  \/ MissedRun
  \/ \E w \in Workers : WorkerEnd(w)
  \/ \E w \in Workers : WorkerTest(w)
  \/ \E w \in Workers : WorkerFetchRaise(w)
  \/ \E w \in Workers, data \in Frames : WorkerFetch(w, data)
  \/ \E w \in Workers : WorkerPush(w)

----------------------------------------------------------------------------
(* POST /alerts, statement by statement.  create_alert is a plain def, so  *)
(* each request runs on a thread of the server's pool, beside the other    *)
(* requests and beside check_alerts.  The Alert object of a request is     *)
(* local to its handler until it is appended; from then on the handler's   *)
(* name for it and the store's entry are the same object.                  *)

MaxHandlers == 2

Handlers == 1..MaxHandlers

\* Symbols as a client may send them: Alert.symbol is any str.
WideSymbols == {<<"a">>, <<" ", "a">>, <<>>}

CreateRequests ==
  [symbol : WideSymbols, condition : {"above"},
   target_price : {1}, triggered : {FALSE}]

\* Frames for the evaluator running beside the handlers
CreateFrames == {<<>>, <<MaxPrice + 1>>}

NoAlert == [symbol |-> <<>>, condition |-> "", target_price |-> 0, triggered |-> FALSE]

IdleHandler == [at |-> 0, alert |-> NoAlert, ref |-> 0]

CreateOrderSwapped == <<"append", "normalise">>

\* The statements of create_alert in order, lines 318-319
CreateOrder == <<"normalise", "append">>

InitCreate ==
  /\ handlers = [h \in Handlers |-> IdleHandler]
  /\ appended = <<>>

\* Requests received whose alert is not in the store yet
Unstored == {h \in Handlers : handlers[h].at # 0 /\ handlers[h].ref = 0}

\* line 317: the request body is validated into an Alert
Receive(h, req) ==
  /\ handlers[h].at = 0
  /\ Len(alerts_db) + Cardinality(Unstored) < MaxAlerts
  /\ handlers' = [handlers EXCEPT ![h] = [at |-> 1, alert |-> req, ref |-> 0]]
  /\ UNCHANGED <<alertVars, trendVars, feedVars, listVars, schedVars, appended>>

\* line 318: alert.symbol = alert.symbol.upper()
HandlerNormalise(h) ==
  /\ handlers[h].at \in DOMAIN CreateOrder
  /\ CreateOrder[handlers[h].at] = "normalise"
  /\ IF handlers[h].ref = 0
     THEN /\ handlers' = [handlers EXCEPT ![h].at = @ + 1,
                                          ![h].alert = NewAlert(@)]
          /\ UNCHANGED alerts_db
     ELSE /\ handlers' = [handlers EXCEPT ![h].at = @ + 1]
          /\ alerts_db' = [alerts_db EXCEPT ![handlers[h].ref] = NewAlert(@)]
  /\ UNCHANGED <<pc, idx, job, cycleLog, pushes, fired, atStart>>
  /\ UNCHANGED <<trendVars, feedVars, listVars, schedVars, appended>>

\* line 319: alerts_db.append(alert)
HandlerAppend(h) ==
  /\ handlers[h].at \in DOMAIN CreateOrder
  /\ CreateOrder[handlers[h].at] = "append"
  /\ alerts_db' = Stored(alerts_db, handlers[h].alert)
  /\ handlers' = [handlers EXCEPT ![h].at = @ + 1, ![h].ref = Len(alerts_db) + 1]
  /\ appended' = Append(appended, handlers[h].alert)
  /\ UNCHANGED <<pc, idx, job, cycleLog, pushes, fired, atStart>>
  /\ UNCHANGED <<trendVars, feedVars, listVars, schedVars>>

\* line 320
HandlerReturn(h) ==
  /\ handlers[h].at = Len(CreateOrder) + 1
  /\ handlers' = [handlers EXCEPT ![h] = IdleHandler]
  /\ UNCHANGED <<alertVars, trendVars, feedVars, listVars, schedVars, appended>>

NextCreate ==
  \/ \E h \in Handlers, req \in CreateRequests : Receive(h, req)
  \/ \E h \in Handlers : HandlerNormalise(h)
  \/ \E h \in Handlers : HandlerAppend(h)
  \/ \E h \in Handlers : HandlerReturn(h)
  \/ StartCycle
  \/ EndCycle
  \/ Skip
  \/ FetchRaise
  \/ \E data \in CreateFrames : Fetch(data)
  \/ PushOk
  \/ \E exc \in TransportErrors : PushFail(exc)

----------------------------------------------------------------------------

----------------------------------------------------------------------------
(* websocket_price: one coroutine per subscriber on the server's event     *)
(* loop.  feeds[s] is the coroutine's position, whether the client is      *)
(* still connected, the last payload sent and how the coroutine ended.     *)

MaxSubscribers == 2

Subscribers == 1..MaxSubscribers

NoQuote == -1

IdleFeed == [pc |-> "idle", connected |-> FALSE, last |-> NoQuote, ended |-> "none"]

InitFeeds == feeds = [s \in Subscribers |-> IdleFeed]

\* The except clause around the loop: WebSocketDisconnect only.
FeedHandler == "WebSocketDisconnect"

\* How the coroutine ends when exc is raised inside the try block.
FeedRaise(s, exc) ==
  feeds' = [feeds EXCEPT ![s].pc = "closed",
                         ![s].ended = IF Catches(FeedHandler, exc)
                                      THEN "normal" ELSE exc]

\* await websocket.accept(); ticker = yf.Ticker(symbol)
Subscribe(s) ==
  /\ feeds[s].pc = "idle"
  /\ feeds' = [feeds EXCEPT ![s].pc = "fetch", ![s].connected = TRUE]
  /\ UNCHANGED notFeedVars

\* The client goes away; the coroutine learns of it only at a send.
ClientDisconnect(s) ==
  /\ feeds[s].pc \in {"fetch", "send", "sleep"}
  /\ feeds[s].connected
  /\ feeds' = [feeds EXCEPT ![s].connected = FALSE]
  /\ UNCHANGED notFeedVars

\* ticker.history(period="1d").tail(1).iloc[-1]: the last row of the frame;
\* iloc[-1] of an empty frame raises IndexError.
FeedFetch(s, data) ==
  /\ feeds[s].pc = "fetch"
  /\ IF data = <<>>
     THEN FeedRaise(s, "IndexError")
     ELSE feeds' = [feeds EXCEPT ![s].pc = "send", ![s].last = data[Len(data)]]
  /\ UNCHANGED notFeedVars

\* ticker.history raises a transport error.
FeedFetchRaise(s, exc) ==
  /\ feeds[s].pc = "fetch"
  /\ FeedRaise(s, exc)
  /\ UNCHANGED notFeedVars

\* await websocket.send_json(payload): raises WebSocketDisconnect when the
\* client has gone.
FeedSend(s) ==
  /\ feeds[s].pc = "send"
  /\ IF feeds[s].connected
     THEN feeds' = [feeds EXCEPT ![s].pc = "sleep"]
     ELSE FeedRaise(s, "WebSocketDisconnect")
  /\ UNCHANGED notFeedVars

\* await asyncio.sleep(5) returns.
FeedWake(s) ==
  /\ feeds[s].pc = "sleep"
  /\ feeds' = [feeds EXCEPT ![s].pc = "fetch"]
  /\ UNCHANGED notFeedVars

NextFeed ==
  \/ \E s \in Subscribers : Subscribe(s)
  \/ \E s \in Subscribers : ClientDisconnect(s)
  \/ \E s \in Subscribers, data \in Frames : FeedFetch(s, data)
  \/ \E s \in Subscribers, exc \in TransportErrors : FeedFetchRaise(s, exc)
  \/ \E s \in Subscribers : FeedSend(s)
  \/ \E s \in Subscribers : FeedWake(s)

----------------------------------------------------------------------------
(* GET /alerts beside POST /alerts and check_alerts.                       *)

StoreRequests ==
  [symbol : ReqSymbols, condition : {"above", "below"},
   target_price : {1}, triggered : {FALSE}]

StoreFrames == {<<>>, <<0>>, <<MaxPrice + 1>>}

InitList == listing = <<>>

\* list_alerts: the response body is the store as it is now
ListAlerts ==
  /\ listing' = alerts_db
  /\ UNCHANGED <<alertVars, trendVars, feedVars, createVars, schedVars>>

NextStore ==
  \/ \E req \in StoreRequests : CreateAlert(req)
  \/ ListAlerts
  \/ StartCycle
  \/ EndCycle
  \/ Skip
  \/ FetchRaise
  \/ \E data \in StoreFrames : Fetch(data)
  \/ PushOk
  \/ \E exc \in TransportErrors : PushFail(exc)

----------------------------------------------------------------------------
Init ==
  /\ InitAlerts /\ InitTrending /\ InitFeeds /\ InitList
  /\ InitCreate /\ InitSched

\* The alert store, the scheduler's job and POST /alerts
Spec == Init /\ [][NextAlerts]_vars

\* Calls of GET /trending
SpecTrending == Init /\ [][NextTrending]_vars

\* Concurrent requests of POST /alerts beside a running check_alerts
SpecCreate == Init /\ [][NextCreate]_vars

\* The interval trigger, the worker threads and POST /alerts
SpecSched == Init /\ [][NextSched]_vars

\* GET /alerts, POST /alerts and check_alerts
SpecStore == Init /\ [][NextStore]_vars

\* The price feed on its own.
SpecFeed == Init /\ [][NextFeed]_vars

\* The evaluator with the interval trigger firing for ever and the job's
\* thread running on
SpecLive ==
  Init /\ [][NextLive]_vars /\ WF_vars(StartCycle) /\ WF_vars(CycleStep)

----------------------------------------------------------------------------
(* Properties of the alert evaluator, under Spec.                          *)

\* The last Close of a non-empty frame.
LastOf(data) == data[Len(data)]

\* Alert k was PENDING when this cycle reached it and its fetch gave no quote.
Missed(k) ==
  /\ ~cycleLog[k].before.triggered
  /\ \/ cycleLog[k].fetch = "raise"
     \/ cycleLog[k].fetch = "data" /\ cycleLog[k].data = <<>>

\* C1: once an alert's triggered flag is true it is true in every later
\* state: no step of the evaluator or of the API removes the alert or
\* clears the flag.
TriggeredIsPermanent ==
  [][\A i \in 1..Len(alerts_db) :
        alerts_db[i].triggered =>
          i <= Len(alerts_db') /\ alerts_db'[i].triggered]_vars

\* An alert the evaluator fired is reached again by a later cycle, still fired.
TriggeredIsPermanentWitness ==
  \E i \in 1..Len(alerts_db) :
    /\ fired[i] = 1
    /\ i <= Len(cycleLog)
    /\ cycleLog[i].before.triggered
    /\ alerts_db[i].triggered

\* C2: a PENDING alert becomes FIRED in a step if and only if that step is
\* the evaluation of this alert with a quote obtained (a non-empty frame)
\* whose last price is strictly above the target of an "above" alert or
\* strictly below the target of a "below" alert.
FiresIffStrictCrossing ==
  [][\A i \in 1..Len(alerts_db) :
        (~alerts_db[i].triggered /\ alerts_db'[i].triggered)
          <=> /\ ~alerts_db[i].triggered
              /\ Len(cycleLog) = i - 1
              /\ Len(cycleLog') = i
              /\ cycleLog'[i].fetch = "data"
              /\ cycleLog'[i].data # <<>>
              /\ \/ /\ alerts_db[i].condition = "above"
                    /\ LastOf(cycleLog'[i].data) > alerts_db[i].target_price
                 \/ /\ alerts_db[i].condition = "below"
                    /\ LastOf(cycleLog'[i].data) < alerts_db[i].target_price]_vars

\* A "below" alert has just fired on a quote under its target, and in the
\* same cycle an "above" alert met a quote equal to its target and stayed PENDING.
FiresIffStrictCrossingWitness ==
  /\ pc = "push"
  /\ idx = 2
  /\ cycleLog[1].before.condition = "above"
  /\ cycleLog[1].data = <<cycleLog[1].before.target_price>>
  /\ ~alerts_db[1].triggered
  /\ cycleLog[2].before.condition = "below"
  /\ ~cycleLog[2].before.triggered
  /\ alerts_db[2].triggered

\* C3: an alert that was PENDING when a cycle reached it, and whose fetch
\* returned an empty frame or raised, is unchanged and PENDING from then
\* until the next cycle starts, and no notification was attempted for it.
MissLeavesPending ==
  \A k \in DOMAIN cycleLog :
    Missed(k) =>
      /\ k <= Len(alerts_db)
      /\ alerts_db[k] = cycleLog[k].before
      /\ cycleLog[k].sink = "none"
      /\ pushes[k] = 0

\* A finished cycle in which one alert got an empty frame and the next one's
\* fetch raised.
MissLeavesPendingWitness ==
  /\ pc = "idle"
  /\ Len(cycleLog) = 2
  /\ Missed(1) /\ cycleLog[1].fetch = "data"
  /\ Missed(2) /\ cycleLog[2].fetch = "raise"
  /\ cycleLog[1].before.condition = "below"

\* C4: when a cycle ends, every alert that follows one whose fetch raised
\* has been reached by that cycle, and fetched unless it was already
\* triggered.
FetchFailureDoesNotAbortCycle ==
  [][(pc # "idle" /\ pc' = "idle") =>
       \A k \in DOMAIN cycleLog' :
         cycleLog'[k].fetch = "raise" =>
           \A j \in (k + 1)..Len(alerts_db') :
             /\ j \in DOMAIN cycleLog'
             /\ cycleLog'[j].before.triggered \/ cycleLog'[j].fetch # "none"]_vars

\* C5: an alert that is triggered when a cycle reaches it gets no fetch and
\* no notification in that cycle; one that was stored already triggered is
\* never notified at all.
TriggeredIsSkipped ==
  /\ \A k \in DOMAIN cycleLog :
       cycleLog[k].before.triggered =>
         cycleLog[k].fetch = "none" /\ cycleLog[k].sink = "none"
  /\ \A i \in 1..Len(alerts_db) :
       (alerts_db[i].triggered /\ fired[i] = 0) => pushes[i] = 0

\* A cycle after the one that fired alert 1 skips it, and skips alert 2,
\* which was stored already triggered.
TriggeredIsSkippedWitness ==
  /\ Len(cycleLog) = 2
  /\ cycleLog[1].before.triggered /\ fired[1] = 1 /\ pushes[1] = 1
  /\ cycleLog[2].before.triggered /\ fired[2] = 0

\* C6: the sink is called once for each PENDING->FIRED transition and never
\* otherwise (at most once per alert); after a call that raised, the alert
\* is FIRED and the cycle was not ended by it: it goes on with the next alert.
OnePushPerTransition ==
  /\ \A i \in DOMAIN pushes :
       /\ pushes[i] <= 1
       /\ pushes[i] + (IF pc = "push" /\ idx = i THEN 1 ELSE 0) = fired[i]
  /\ \A k \in DOMAIN cycleLog :
       cycleLog[k].sink \in TransportErrors =>
         /\ k <= Len(alerts_db) /\ alerts_db[k].triggered
         /\ k = Len(cycleLog) =>
              /\ job \in {"running", "returned"}
              /\ pc = "loop" => idx = k + 1

\* The push for alert 1 raised, and the same cycle then fetched alert 2.
OnePushPerTransitionWitness ==
  /\ Len(cycleLog) = 2
  /\ cycleLog[1].sink \in TransportErrors
  /\ cycleLog[2].fetch = "data"
  /\ cycleLog[2].sink = "ok"
  /\ pushes[1] = 1 /\ pushes[2] = 1

\* An alert whose quote is obtainable and satisfies its condition in every cycle.
Satisfiable(alert) ==
  /\ ~Unavailable(alert.symbol)
  /\ alert.condition = "above"
  /\ LastOf(MarketFrame) > alert.target_price

\* C11: with the timer firing for ever, an alert in the store whose quote is
\* obtainable and satisfies its condition in every cycle is eventually
\* FIRED, whatever happens to the fetches of the other alerts.
EventuallyFired ==
  \A i \in 1..MaxAlerts :
    (i <= Len(alerts_db) /\ Satisfiable(alerts_db[i]))
      ~> (i <= Len(alerts_db) /\ alerts_db[i].triggered)


\* C12: at most one execution of check_alerts is active at any time, also
\* when a trigger fires during a run; so no two executions are at the same
\* alert between the test and the write of its flag, and no alert is
\* notified twice.
CyclesNeverOverlap ==
  /\ Cardinality(Running) <= 1
  /\ \A v, w \in Workers :
       (/\ v # w
        /\ workers.threads[v].pc \in {"fetch", "push"}
        /\ workers.threads[w].pc \in {"fetch", "push"})
         => workers.threads[v].idx # workers.threads[w].idx
  /\ \A i \in DOMAIN pushes : pushes[i] <= 1

\* A run is at its second alert, having notified the first, and a trigger
\* that fired meanwhile was skipped.
CyclesNeverOverlapWitness ==
  /\ workers.skipped
  /\ \E w \in Workers :
       /\ workers.threads[w].pc = "push"
       /\ workers.threads[w].idx = 2
  /\ pushes[1] = 1

\* An alert with its triggered flag left out.
Fields(alert) ==
  [symbol |-> alert.symbol, condition |-> alert.condition,
   target_price |-> alert.target_price]

Normalized(sym) ==
  /\ sym # <<>>
  /\ sym[1] # " "
  /\ sym[Len(sym)] # " "
  /\ sym = Upper(sym)

\* C20: every alert in the store has a normalized symbol, and the evaluator
\* issues no fetch for a symbol that is empty or not normalized.
StoredSymbolsNormalized ==
  /\ \A i \in DOMAIN alerts_db : Normalized(alerts_db[i].symbol)
  /\ \A k \in DOMAIN cycleLog :
       cycleLog[k].fetch # "none" => Normalized(cycleLog[k].before.symbol)

\* C14: a feed ends only as a normal termination after the subscriber has
\* disconnected, or as an error because a fetch raised a transport error; in
\* particular an empty fetch result does not end it.
FeedEndsOnlyTwoWays ==
  \A s \in Subscribers :
    feeds[s].pc = "closed" =>
      \/ feeds[s].ended = "normal" /\ ~feeds[s].connected
      \/ feeds[s].ended \in TransportErrors

\* C15: every alert whose triggered flag is set was marked by the evaluator:
\* its condition was observed true once, and one notification attempt was
\* made (or is being made) for it, whatever the creating request supplied.
TriggeredOnlyByEvaluator ==
  \A i \in DOMAIN alerts_db :
    alerts_db[i].triggered =>
      /\ fired[i] = 1
      /\ pushes[i] + (IF pc = "push" /\ idx = i THEN 1 ELSE 0) = 1

\* C16: a cycle evaluates only alerts that were in the store when it
\* started, in store order, and a cycle that returned evaluated all of them.
CycleProcessesSnapshot ==
  /\ Len(cycleLog) <= atStart
  /\ job = "returned" => Len(cycleLog) = atStart
  /\ \A k \in DOMAIN cycleLog :
       /\ k <= Len(alerts_db)
       /\ Fields(cycleLog[k].before) = Fields(alerts_db[k])

\* C17: the store is append-only.  Every step keeps the existing entries in
\* place with their symbol, condition and target_price; a step of the
\* evaluator keeps the length; list_alerts changes nothing; an append adds
\* one entry at the end, leaves the others as they are and is no step of the
\* evaluator.
StoreIsAppendOnly ==
  [][ /\ Len(alerts_db') \in {Len(alerts_db), Len(alerts_db) + 1}
      /\ \A i \in DOMAIN alerts_db :
           Fields(alerts_db'[i]) = Fields(alerts_db[i])
      /\ <<pc, idx, cycleLog>>' # <<pc, idx, cycleLog>> =>
           Len(alerts_db') = Len(alerts_db)
      /\ listing' # listing => alerts_db' = alerts_db
      /\ Len(alerts_db') = Len(alerts_db) + 1 =>
           /\ SubSeq(alerts_db', 1, Len(alerts_db)) = alerts_db
           /\ UNCHANGED <<pc, idx, job, cycleLog, pushes, fired>> ]_vars

\* Two different alerts are stored, a returned cycle fired the first and
\* left the second pending, and GET /alerts then listed both.
StoreIsAppendOnlyWitness ==
  /\ Len(alerts_db) = 2
  /\ alerts_db[1].condition # alerts_db[2].condition
  /\ alerts_db[1].triggered /\ ~alerts_db[2].triggered
  /\ job = "returned" /\ Len(cycleLog) = 2
  /\ fired[1] = 1
  /\ listing = alerts_db

----------------------------------------------------------------------------
(* Properties of the trending resolver, under SpecTrending.                *)

\* The order of the strategies for a region.
Chain(region) ==
  IF region = <<"U", "S">>
  THEN <<"trending", "day_gainers", "most_actives", "fmp">>
  ELSE <<"fmp">>

\* A strategy succeeds iff it answers a parseable list of at least one symbol.
Succeeded(call) ==
  call.reply.kind \in {"quotes", "list"} /\ call.reply.quotes # <<>>

\* An enrichment fetch that failed: not found (fewer than two rows) or an exception.
EnrichFailed(source) == source.kind = "raise" \/ source.rows < 2

\* C7: the strategies are invoked in the order of the region's chain, each
\* only after all before it failed, none after the first success, and the
\* resolved symbols are exactly the list of the strategy that succeeded.
StrategiesInOrder ==
  /\ Len(calls) <= Len(Chain(region_code))
  /\ \A k \in DOMAIN calls :
       /\ calls[k].strategy = Chain(region_code)[k]
       /\ k < Len(calls) => ~Succeeded(calls[k])
       /\ Succeeded(calls[k]) => symbols = calls[k].reply.quotes
  /\ symbols # <<>> => calls # <<>> /\ Succeeded(calls[Len(calls)])

\* Region US: the trending feed failed, day gainers answered two symbols,
\* and the call returned without a third strategy.
StrategiesInOrderWitness ==
  /\ tpc = "done"
  /\ response.kind = "ok"
  /\ Len(calls) = 2
  /\ ~Succeeded(calls[1])
  /\ calls[2].strategy = "day_gainers"
  /\ Len(symbols) = 2
  /\ symbols[1] # symbols[2]

\* C8: when the last strategy, the FMP screener, answers an empty list after
\* every strategy before it failed, the call has ended with the
\* no-results error: no list, no enrichment fetch, no strategy tried twice.
NoResultsWhenAllEmpty ==
  (/\ calls # <<>>
   /\ calls[Len(calls)].strategy = "fmp"
   /\ calls[Len(calls)].reply.kind = "list"
   /\ calls[Len(calls)].reply.quotes = <<>>)
    => /\ tpc = "done"
       /\ response.kind = "HTTPException"
       /\ response.status = 502
       /\ response.detail = "No trending/gainers"
       /\ response.body = <<>>
       /\ out = <<>>
       /\ enrichCalls = <<>>
       /\ \A j, k \in DOMAIN calls : calls[j].strategy = calls[k].strategy => j = k

\* Region US: the three Yahoo strategies failed and FMP answered an empty list.
NoResultsWhenAllEmptyWitness ==
  /\ tpc = "done"
  /\ Len(calls) = 4
  /\ calls[4].reply.kind = "list"
  /\ calls[4].reply.quotes = <<>>
  /\ response.detail = "No trending/gainers"

\* C9: a call that resolved symbols ends by returning one record per symbol
\* in order, after one enrichment fetch per symbol; a symbol whose fetch
\* failed (not found, or an exception) has the partial record.
EnrichmentIsolated ==
  (tpc = "done" /\ symbols # <<>>) =>
    /\ response.kind = "ok"
    /\ Len(response.body) = Len(symbols)
    /\ Len(enrichCalls) = Len(symbols)
    /\ \A k \in DOMAIN symbols :
         /\ enrichCalls[k].symbol = symbols[k]
         /\ IF EnrichFailed(enrichCalls[k].source)
            THEN response.body[k] =
                   [symbol |-> symbols[k], name |-> "None",
                    logo_url |-> "None", price |-> "None"]
            ELSE /\ response.body[k].symbol = Upper(Strip(symbols[k]))
                 /\ response.body[k].price # "None"

\* C10: a call that ends in a failure ends in an HTTP error of status 404
\* or 502: nothing else, and no unhandled exception, reaches the caller.
OnlyTwoFailureKinds ==
  (tpc = "done" /\ response.kind # "ok") =>
    response.kind = "HTTPException" /\ response.status \in {404, 502}

\* C18: for a region other than US no Yahoo strategy is invoked; the only
\* call is one call of the FMP screener, with exchange BSE for IN, LSE for GB
\* and the default NASDAQ for a region outside the mapping.
OtherRegionsUseScreenerOnly ==
  (tpc # "idle" /\ region_code # US) =>
    /\ Len(calls) <= 1
    /\ tpc \in {"enrich", "done"} => Len(calls) = 1
    /\ \A k \in DOMAIN calls :
         /\ calls[k].strategy = "fmp"
         /\ region_code = <<"I", "N">> => calls[k].exchange = "BSE"
         /\ region_code = <<"G", "B">> => calls[k].exchange = "LSE"
         /\ region_code \notin {<<"I", "N">>, <<"G", "B">>} =>
              calls[k].exchange = "NASDAQ"

\* A request for IN was answered from the screener's BSE listing.
OtherRegionsUseScreenerOnlyWitness ==
  /\ tpc = "done" /\ response.kind = "ok"
  /\ region_code = <<"I", "N">>
  /\ Len(calls) = 1 /\ calls[1].exchange = "BSE" /\ calls[1].strategy = "fmp"

\* C19: a successful response holds at least one and at most count records,
\* and at most count enrichment fetches were issued for it.
AtMostCountRecords ==
  (tpc = "done" /\ response.kind = "ok") =>
    /\ 1 <= Len(response.body)
    /\ Len(response.body) <= count
    /\ Len(enrichCalls) <= count

====
